---------------------------- MODULE Spec2Model ----------------------------
(***************************************************************************)
(* A model of tinytracker: the UDP tracker wire codec (src/src/codec.rs)   *)
(* and the request handler and datagram loop (src/src/tracker.rs).         *)
(*                                                                         *)
(* Representation of machine integers.  TLC integers are 32-bit signed,    *)
(* so fixed-width values are kept as big-endian limbs:                     *)
(*   u8   a number in 0..255                                               *)
(*   u16  a number in 0..65535                                             *)
(*   u32  a pair <<hi, lo>> of u16                                         *)
(*   u64  a pair <<hi, lo>> of u32                                         *)
(* A byte buffer (BytesMut, Vec<u8>, Cursor contents) is a sequence of u8. *)
(* Offsets passed to the readers are 0-based, as in the layout comments of *)
(* codec.rs.                                                               *)
(***************************************************************************)
EXTENDS Integers, Sequences, FiniteSets, TLC

VARIABLES
    src,          \* codec harness: the BytesMut handed to encode / decode
    input,        \* codec harness: the bytes src held when decode was called
    item,         \* codec harness: the packet given to encode (or NoPacket)
    result,       \* codec harness: what decode returned
    phase,        \* codec harness: "idle" | "filled" | "encoded" | "decoded"
    static_peers, \* Tracker.static_peers
    interval,     \* Tracker.interval
    request,      \* the packet last given to handle_packet
    response,     \* what handle_packet returned for it
    frame,        \* Tracker.frame: the UdpFramed state
    pc,           \* Tracker::start: "select" | "done"
    outcome,      \* Tracker::start: which arm the last loop iteration took
    delivered     \* the datagram the socket sent in the last iteration

vars == <<src, input, item, result, phase, static_peers, interval, request,
          response, frame, pc, outcome, delivered>>

-----------------------------------------------------------------------------
(* Bounds of the model.                                                    *)

\* Longest raw datagram the codec harness decodes (AnnounceRequest is 98).
MaxLen == 100
\* Longest peer list of an AnnounceResponse / of the static configuration.
MaxPeers == 2
\* Longest hash list of a ScrapeRequest.
MaxHashes == 2
\* Longest counter list of a ScrapeResponse.
MaxData == 2

-----------------------------------------------------------------------------
(* Fixed-width integers and their big-endian wire form.                    *)

U32(hi, lo) == <<hi, lo>>
U64(a, b, c, d) == <<U32(a, b), U32(c, d)>>

WriteU16(v) == <<v \div 256, v % 256>>
WriteU32(w) == WriteU16(w[1]) \o WriteU16(w[2])
WriteU64(q) == WriteU32(q[1]) \o WriteU32(q[2])

\* The readers take a buffer and a 0-based offset; the caller checks length.
ReadU16(buf, off) == buf[off + 1] * 256 + buf[off + 2]
ReadU32(buf, off) == <<ReadU16(buf, off), ReadU16(buf, off + 2)>>
ReadU64(buf, off) == <<ReadU32(buf, off), ReadU32(buf, off + 4)>>
ReadBytes(buf, off, n) == SubSeq(buf, off + 1, off + n)

\* const CONNECT_MAGIC: u64 = 0x41727101980 = 0x0000_0417_2710_1980
CONNECT_MAGIC == U64(0, 1047, 10000, 6528)

-----------------------------------------------------------------------------
(* Action and AnnounceEvent: enums carried as u32 on the wire.             *)

Actions == {"Connect", "Announce", "Scrape"}
AnnounceEvents == {"None", "Completed", "Started", "Stopped"}

\* impl TryFrom<u32> for Action; "Unknown" stands for the Err arm.
ActionTryFrom(value) ==
    CASE value = U32(0, 0) -> "Connect"
      [] value = U32(0, 1) -> "Announce"
      [] value = U32(0, 2) -> "Scrape"
      [] OTHER -> "Unknown"

\* impl From<Action> for u32 (value as u32), the repr written on the wire.
ActionRepr(a) ==
    CASE a = "Connect" -> U32(0, 0)
      [] a = "Announce" -> U32(0, 1)
      [] a = "Scrape" -> U32(0, 2)

\* impl TryFrom<u32> for AnnounceEvent; "Unknown" stands for the Err arm.
AnnounceEventTryFrom(value) ==
    CASE value = U32(0, 0) -> "None"
      [] value = U32(0, 1) -> "Completed"
      [] value = U32(0, 2) -> "Started"
      [] value = U32(0, 3) -> "Stopped"
      [] OTHER -> "Unknown"

\* impl From<AnnounceEvent> for u32.
AnnounceEventRepr(e) ==
    CASE e = "None" -> U32(0, 0)
      [] e = "Completed" -> U32(0, 1)
      [] e = "Started" -> U32(0, 2)
      [] e = "Stopped" -> U32(0, 3)

\* ip_addr_parser: a big-endian u32 turned into the four octets of Ipv4Addr.
ip_addr_parser(buf, off) ==
    LET ip == ReadU32(buf, off)
    IN  <<ip[1] \div 256, ip[1] % 256, ip[2] \div 256, ip[2] % 256>>

\* ip_addr_writer: the Ipv4Addr turned into a u32 and written big-endian.
ip_addr_writer(ip) ==
    LET v == U32(ip[1] * 256 + ip[2], ip[3] * 256 + ip[4])
    IN  WriteU32(v)

-----------------------------------------------------------------------------
(* Results.  A binrw read either yields a value or fails; decode returns   *)
(* Ok(Some(packet)), Ok(None) or Err.                                      *)

NoPacket == [kind |-> "None"]
ReadErr == [ok |-> FALSE, val |-> NoPacket]
ReadOk(v) == [ok |-> TRUE, val |-> v]

OkSome(p) == [tag |-> "OkSome", val |-> p]
OkNone == [tag |-> "OkNone", val |-> NoPacket]
Err == [tag |-> "Err", val |-> NoPacket]
NoResult == [tag |-> "NoResult", val |-> NoPacket]


-----------------------------------------------------------------------------
(* Wire types.  Write<T> is what the derived BinWrite emits (write_be),    *)
(* Read<T> what the derived BinRead returns for a Cursor over buf read     *)
(* from offset 0 (read_be).  A field read that runs past the end of the    *)
(* buffer, or an enum field whose u32 is no variant, fails the whole read. *)

\* struct Peer { ip_address: Ipv4Addr, port: u16 }, 6 bytes.
WritePeer(p) == ip_addr_writer(p.ip_address) \o WriteU16(p.port)
ReadPeer(buf, off) ==
    [ip_address |-> ip_addr_parser(buf, off), port |-> ReadU16(buf, off + 4)]

\* struct InfoHash { hash: [u8; 20] }.
WriteInfoHash(h) == h.hash
ReadInfoHash(buf, off) == [hash |-> ReadBytes(buf, off, 20)]

\* struct PeerId { inner: [u8; 20] }.
WritePeerId(p) == p.inner
ReadPeerId(buf, off) == [inner |-> ReadBytes(buf, off, 20)]

\* struct ScrapeData { seeders: u32, completed: u32, leechers: u32 }.
WriteScrapeData(d) ==
    WriteU32(d.seeders) \o WriteU32(d.completed) \o WriteU32(d.leechers)
ReadScrapeData(buf, off) ==
    [seeders |-> ReadU32(buf, off),
     completed |-> ReadU32(buf, off + 4),
     leechers |-> ReadU32(buf, off + 8)]

\* The Vec<T> writer: the elements' bytes one after the other, with no
\* length prefix.  chunks is the sequence of the elements' encodings.
RECURSIVE WriteVec(_)
WriteVec(chunks) ==
    IF chunks = <<>> THEN <<>> ELSE Head(chunks) \o WriteVec(Tail(chunks))

\* binrw::helpers::until_eof: read one record after the other and stop at
\* the first read that hits the end of the input.  A record cut short by
\* the end of the input raises the same end-of-input error as no record at
\* all, so the loop stops there too and returns the records read so far.
\* The result is the sequence of offsets of the records read.
RECURSIVE until_eof(_, _, _)
until_eof(buf, off, size) ==
    IF off + size > Len(buf)
    THEN <<>>
    ELSE <<off>> \o until_eof(buf, off + size, size)

\* struct ConnectRequest { protocol_id: u64, action: Action,
\*                         transaction_id: u32 }, the 16-byte layout of the
\* comment at codec.rs:150-154.  The magic is written as an argument of
\* the #[binrw] attribute itself, which takes none and drops what it is
\* given (a magic is declared with #[brw(magic = ..)]): the derived reader
\* and writer handle the three fields only, and the magic is checked by
\* decode alone.
WriteConnectRequest(p) ==
    WriteU64(p.protocol_id) \o WriteU32(ActionRepr(p.action))
        \o WriteU32(p.transaction_id)
ReadConnectRequest(buf) ==
    IF Len(buf) < 16 THEN ReadErr
    ELSE IF ActionTryFrom(ReadU32(buf, 8)) = "Unknown" THEN ReadErr
    ELSE ReadOk([kind |-> "ConnectRequest",
                 protocol_id |-> ReadU64(buf, 0),
                 action |-> ActionTryFrom(ReadU32(buf, 8)),
                 transaction_id |-> ReadU32(buf, 12)])

\* struct ConnectResponse { action, transaction_id: u32, connection_id: u64 }.
WriteConnectResponse(p) ==
    WriteU32(ActionRepr(p.action)) \o WriteU32(p.transaction_id)
        \o WriteU64(p.connection_id)
ReadConnectResponse(buf) ==
    IF Len(buf) < 16 THEN ReadErr
    ELSE IF ActionTryFrom(ReadU32(buf, 0)) = "Unknown" THEN ReadErr
    ELSE ReadOk([kind |-> "ConnectResponse",
                 action |-> ActionTryFrom(ReadU32(buf, 0)),
                 transaction_id |-> ReadU32(buf, 4),
                 connection_id |-> ReadU64(buf, 8)])

\* port: Option<u16>.  BinWrite for Option<T> writes the value when it is
\* Some and nothing when it is None.  An absent port is <<>>, a present one
\* <<v>>.
WriteOptionU16(o) == IF o = <<>> THEN <<>> ELSE WriteU16(o[1])

\* BinRead for Option<T> (no #[br(if)] and no #[br(try)] on the field)
\* reads a T and wraps it in Some; an end of input is an error like that
\* of any other field.
ReadOptionU16(buf, off) ==
    IF off + 2 > Len(buf) THEN ReadErr ELSE ReadOk(<<ReadU16(buf, off)>>)

\* struct AnnounceRequest, codec.rs:248-264: 96 fixed bytes and the port.
WriteAnnounceRequest(p) ==
    WriteU64(p.connection_id) \o WriteU32(ActionRepr(p.action))
        \o WriteU32(p.transaction_id) \o WriteInfoHash(p.info_hash)
        \o WritePeerId(p.peer_id) \o WriteU64(p.downloaded)
        \o WriteU64(p.left) \o WriteU64(p.uploaded)
        \o WriteU32(AnnounceEventRepr(p.event))
        \o ip_addr_writer(p.ip_address) \o WriteU32(p.key)
        \o WriteU32(p.peers_wanted) \o WriteOptionU16(p.port)
ReadAnnounceRequest(buf) ==
    IF Len(buf) < 96 THEN ReadErr
    ELSE IF ActionTryFrom(ReadU32(buf, 8)) = "Unknown" THEN ReadErr
    ELSE IF AnnounceEventTryFrom(ReadU32(buf, 80)) = "Unknown" THEN ReadErr
    ELSE IF ~ReadOptionU16(buf, 96).ok THEN ReadErr
    ELSE ReadOk([kind |-> "AnnounceRequest",
                 connection_id |-> ReadU64(buf, 0),
                 action |-> ActionTryFrom(ReadU32(buf, 8)),
                 transaction_id |-> ReadU32(buf, 12),
                 info_hash |-> ReadInfoHash(buf, 16),
                 peer_id |-> ReadPeerId(buf, 36),
                 downloaded |-> ReadU64(buf, 56),
                 left |-> ReadU64(buf, 64),
                 uploaded |-> ReadU64(buf, 72),
                 event |-> AnnounceEventTryFrom(ReadU32(buf, 80)),
                 ip_address |-> ip_addr_parser(buf, 84),
                 key |-> ReadU32(buf, 88),
                 peers_wanted |-> ReadU32(buf, 92),
                 port |-> ReadOptionU16(buf, 96).val])

\* struct AnnounceResponse, codec.rs:280-288: 20 fixed bytes, then peers
\* parsed with until_eof.
WriteAnnounceResponse(p) ==
    WriteU32(ActionRepr(p.action)) \o WriteU32(p.transaction_id)
        \o WriteU32(p.interval) \o WriteU32(p.leechers)
        \o WriteU32(p.seeders)
        \o WriteVec([i \in 1..Len(p.peers) |-> WritePeer(p.peers[i])])
ReadAnnounceResponse(buf) ==
    IF Len(buf) < 20 THEN ReadErr
    ELSE IF ActionTryFrom(ReadU32(buf, 0)) = "Unknown" THEN ReadErr
    ELSE LET offs == until_eof(buf, 20, 6)
         IN  ReadOk([kind |-> "AnnounceResponse",
                     action |-> ActionTryFrom(ReadU32(buf, 0)),
                     transaction_id |-> ReadU32(buf, 4),
                     interval |-> ReadU32(buf, 8),
                     leechers |-> ReadU32(buf, 12),
                     seeders |-> ReadU32(buf, 16),
                     peers |-> [i \in 1..Len(offs) |-> ReadPeer(buf, offs[i])]])

\* struct ScrapeRequest, codec.rs:301-307: 16 fixed bytes, then hashes
\* parsed with until_eof.
WriteScrapeRequest(p) ==
    WriteU64(p.connection_id) \o WriteU32(ActionRepr(p.action))
        \o WriteU32(p.transaction_id) \o WriteVec([i \in 1..Len(p.hashes) |->
                        WriteInfoHash(p.hashes[i])])
ReadScrapeRequest(buf) ==
    IF Len(buf) < 16 THEN ReadErr
    ELSE IF ActionTryFrom(ReadU32(buf, 8)) = "Unknown" THEN ReadErr
    ELSE LET offs == until_eof(buf, 16, 20)
         IN  ReadOk([kind |-> "ScrapeRequest",
                     connection_id |-> ReadU64(buf, 0),
                     action |-> ActionTryFrom(ReadU32(buf, 8)),
                     transaction_id |-> ReadU32(buf, 12),
                     hashes |-> [i \in 1..Len(offs) |->
                                    ReadInfoHash(buf, offs[i])]])

\* struct ScrapeResponse, codec.rs:321-326: 8 fixed bytes, then counters
\* parsed with until_eof.
WriteScrapeResponse(p) ==
    WriteU32(ActionRepr(p.action)) \o WriteU32(p.transaction_id)
        \o WriteVec([i \in 1..Len(p.data) |-> WriteScrapeData(p.data[i])])
ReadScrapeResponse(buf) ==
    IF Len(buf) < 8 THEN ReadErr
    ELSE IF ActionTryFrom(ReadU32(buf, 0)) = "Unknown" THEN ReadErr
    ELSE LET offs == until_eof(buf, 8, 12)
         IN  ReadOk([kind |-> "ScrapeResponse",
                     action |-> ActionTryFrom(ReadU32(buf, 0)),
                     transaction_id |-> ReadU32(buf, 4),
                     data |-> [i \in 1..Len(offs) |->
                                  ReadScrapeData(buf, offs[i])]])

-----------------------------------------------------------------------------
(* TrackerCodec.                                                           *)

\* Encoder::encode: the bytes appended to dst for item.
encode(p) ==
    CASE p.kind = "ConnectRequest" -> WriteConnectRequest(p)
      [] p.kind = "ConnectResponse" -> WriteConnectResponse(p)
      [] p.kind = "AnnounceRequest" -> WriteAnnounceRequest(p)
      [] p.kind = "AnnounceResponse" -> WriteAnnounceResponse(p)
      [] p.kind = "ScrapeRequest" -> WriteScrapeRequest(p)
      [] p.kind = "ScrapeResponse" -> WriteScrapeResponse(p)

\* reader.read_be()? wrapped in Ok(Some(..)): a failed read is decode's Err.
Parsed(r) == IF r.ok THEN OkSome(r.val) ELSE Err

\* Mutant of SelectedShape: the request action is looked at before the
\* magic.
SelectedShape_ActionBeforeMagic(buf) ==
    LET magic == ReadU64(buf, 0)
        request_action == ReadU32(buf, 8)
        response_action == magic[1]
    IN  IF ActionTryFrom(request_action) = "Announce" THEN "AnnounceRequest"
        ELSE IF ActionTryFrom(request_action) = "Scrape" THEN "ScrapeRequest"
        ELSE IF magic = CONNECT_MAGIC THEN "ConnectRequest"
        ELSE IF ActionTryFrom(response_action) = "Connect"
             THEN "ConnectResponse"
        ELSE IF ActionTryFrom(response_action) = "Announce"
             THEN "AnnounceResponse"
        ELSE IF ActionTryFrom(response_action) = "Scrape"
             THEN "ScrapeResponse"
        ELSE "None"

\* Mutant of SelectedShape: the response action is tried before the request
\* action.
SelectedShape_ResponseFirst(buf) ==
    LET magic == ReadU64(buf, 0)
        request_action == ReadU32(buf, 8)
        response_action == magic[1]
    IN  IF magic = CONNECT_MAGIC THEN "ConnectRequest"
        ELSE IF ActionTryFrom(response_action) = "Connect"
             THEN "ConnectResponse"
        ELSE IF ActionTryFrom(response_action) = "Announce"
             THEN "AnnounceResponse"
        ELSE IF ActionTryFrom(response_action) = "Scrape"
             THEN "ScrapeResponse"
        ELSE IF ActionTryFrom(request_action) = "Announce"
             THEN "AnnounceRequest"
        ELSE IF ActionTryFrom(request_action) = "Scrape"
             THEN "ScrapeRequest"
        ELSE "None"

\* The shape Decoder::decode hands the buffer to, for a buffer of at least
\* 16 bytes: the magic first, then the request action (bytes 8..12) against
\* Announce and Scrape, then the response action (bytes 0..4).
SelectedShape(buf) ==
    LET magic == ReadU64(buf, 0)
        request_action == ReadU32(buf, 8)
        response_action == magic[1]
    IN  IF magic = CONNECT_MAGIC THEN "ConnectRequest"
        ELSE IF ActionTryFrom(request_action) = "Announce"
             THEN "AnnounceRequest"
        ELSE IF ActionTryFrom(request_action) = "Scrape"
             THEN "ScrapeRequest"
        ELSE IF ActionTryFrom(response_action) = "Connect"
             THEN "ConnectResponse"
        ELSE IF ActionTryFrom(response_action) = "Announce"
             THEN "AnnounceResponse"
        ELSE IF ActionTryFrom(response_action) = "Scrape"
             THEN "ScrapeResponse"
        ELSE "None"

\* Mutant of decode: src.advance(src.len()) is done before the length is
\* checked, so a short buffer is consumed.
decode_AdvanceFirst(buf) ==
    IF Len(buf) < 16
    THEN [res |-> OkNone, src |-> <<>>]
    ELSE [res |-> (IF ReadU64(buf, 0) = CONNECT_MAGIC
                   THEN Parsed(ReadConnectRequest(buf)) ELSE OkNone),
          src |-> <<>>]

\* Decoder::decode: the value returned and what is left in src.  Below 16
\* bytes src is left alone; otherwise src.advance(src.len()) empties it
\* before the packet is parsed from the copy held by reader.
decode(buf) ==
    IF Len(buf) < 16
    THEN [res |-> OkNone, src |-> buf]
    ELSE LET shape == SelectedShape(buf)
             res ==
               CASE shape = "ConnectRequest" -> Parsed(ReadConnectRequest(buf))
                 [] shape = "AnnounceRequest" -> Parsed(ReadAnnounceRequest(buf))
                 [] shape = "ScrapeRequest" -> Parsed(ReadScrapeRequest(buf))
                 [] shape = "ConnectResponse" -> Parsed(ReadConnectResponse(buf))
                 [] shape = "AnnounceResponse" -> Parsed(ReadAnnounceResponse(buf))
                 [] shape = "ScrapeResponse" -> Parsed(ReadScrapeResponse(buf))
                 [] OTHER -> OkNone
         IN  [res |-> res, src |-> <<>>]

-----------------------------------------------------------------------------
(* The values the harnesses draw their inputs from.                        *)

SeqsUpTo(S, n) == UNION {[1..k -> S] : k \in 0..n}
Fill(b, n) == [i \in 1..n |-> b]

TxIds == {U32(0, 123), U32(65535, 65535)}
\* Connection ids: a small one, ones whose upper word is an action code,
\* the connect magic itself, and the largest u64.
ConnIds ==
    {U64(0, 0, 0, 42), U64(0, 1, 0, 0), U64(0, 2, 0, 7), CONNECT_MAGIC,
     U64(65535, 65535, 65535, 65535)}
Intervals == {U32(0, 0), U32(0, 1), U32(0, 2), U32(0, 600)}
HashPool == {[hash |-> Fill(0, 20)], [hash |-> Fill(255, 20)]}
PeerIdPool == {[inner |-> Fill(45, 20)]}
PeerPool ==
    {[ip_address |-> <<10, 0, 0, 1>>, port |-> 6881],
     [ip_address |-> <<192, 168, 1, 2>>, port |-> 65535]}
ScrapeDataPool ==
    {[seeders |-> U32(0, 1), completed |-> U32(0, 1), leechers |-> U32(0, 0)],
     [seeders |-> U32(0, 5), completed |-> U32(65535, 65535),
      leechers |-> U32(0, 3)]}
Ports == {<<>>, <<6881>>}

ConnectRequests ==
    {[kind |-> "ConnectRequest", protocol_id |-> CONNECT_MAGIC,
      action |-> a, transaction_id |-> t] : a \in Actions, t \in TxIds}
ConnectResponses ==
    {[kind |-> "ConnectResponse", action |-> "Connect",
      transaction_id |-> t, connection_id |-> c] : t \in TxIds, c \in ConnIds}
AnnounceRequests ==
    {[kind |-> "AnnounceRequest", connection_id |-> c, action |-> "Announce",
      transaction_id |-> t, info_hash |-> h, peer_id |-> pid,
      downloaded |-> U64(0, 0, 0, 1), left |-> U64(0, 0, 2, 0),
      uploaded |-> U64(0, 3, 0, 0), event |-> e,
      ip_address |-> <<127, 0, 0, 1>>, key |-> U32(7, 8),
      peers_wanted |-> U32(65535, 65535), port |-> o] :
        c \in ConnIds, t \in TxIds, h \in HashPool, pid \in PeerIdPool,
        e \in AnnounceEvents, o \in Ports}
AnnounceResponses ==
    {[kind |-> "AnnounceResponse", action |-> "Announce",
      transaction_id |-> t, interval |-> i, leechers |-> U32(0, 0),
      seeders |-> U32(0, Len(ps)), peers |-> ps] :
        t \in TxIds, i \in Intervals, ps \in SeqsUpTo(PeerPool, MaxPeers)}
ScrapeRequests ==
    {[kind |-> "ScrapeRequest", connection_id |-> c, action |-> "Scrape",
      transaction_id |-> t, hashes |-> hs] :
        c \in ConnIds, t \in TxIds, hs \in SeqsUpTo(HashPool, MaxHashes)}
ScrapeResponses ==
    {[kind |-> "ScrapeResponse", action |-> "Scrape",
      transaction_id |-> t, data |-> ds] :
        t \in TxIds, ds \in SeqsUpTo(ScrapeDataPool, MaxData)}

Packets ==
    ConnectRequests \cup ConnectResponses \cup AnnounceRequests
        \cup AnnounceResponses \cup ScrapeRequests \cup ScrapeResponses

\* Raw datagrams: a 16-byte header of four words followed by a repeated
\* word, cut to every length from 0 to MaxLen.
HeaderWords == {U32(0, 0), U32(0, 1), U32(0, 2), U32(0, 3)}
TailWords == {U32(0, 0), U32(0, 1), U32(65535, 65535)}
Headers ==
    {WriteU64(CONNECT_MAGIC) \o WriteU32(w2) \o WriteU32(U32(0, 123)) :
        w2 \in HeaderWords}
    \cup {WriteU32(w0) \o WriteU32(U32(0, 7)) \o WriteU32(w2)
            \o WriteU32(U32(0, 123)) : w0 \in HeaderWords, w2 \in HeaderWords}
RECURSIVE Repeat(_, _)
Repeat(w, n) == IF n <= 0 THEN <<>> ELSE WriteU32(w) \o Repeat(w, n - 4)
RawBuffers ==
    {SubSeq(h \o Repeat(t, MaxLen), 1, n) :
        h \in Headers, t \in TailWords, n \in 0..MaxLen}

-----------------------------------------------------------------------------
(* The codec harness: a buffer is filled with raw bytes (as the tests      *)
(* test_random_bytes and test_decode_tracker_codec do) or with the         *)
(* encoding of a packet, and then decoded.                                 *)

FreshFrame ==
    [rd |-> <<>>, is_readable |-> FALSE, current_addr |-> "none",
     wr |-> <<>>, out_addr |-> "none", flushed |-> TRUE]

TrackerIdle ==
    /\ static_peers = <<>>
    /\ interval = U32(0, 600)
    /\ request = NoPacket
    /\ response = NoResult
    /\ frame = FreshFrame
    /\ pc = "select"
    /\ outcome = "none"
    /\ delivered = <<>>

CodecIdle ==
    /\ src = <<>>
    /\ input = <<>>
    /\ item = NoPacket
    /\ result = NoResult
    /\ phase = "idle"

Init == CodecIdle /\ TrackerIdle

\* BytesMut::from(buf.as_slice()), codec.rs:418.
FillBuffer(b) ==
    /\ phase = "idle"
    /\ src' = b
    /\ item' = NoPacket
    /\ phase' = "filled"
    /\ UNCHANGED <<input, result, static_peers, interval, request, response,
                   frame, pc, outcome, delivered>>

\* TrackerCodec::encode(item, &mut dst): dst.extend_from_slice(..).
Encode(p) ==
    /\ phase = "idle"
    /\ src' = src \o encode(p)
    /\ item' = p
    /\ phase' = "encoded"
    /\ UNCHANGED <<input, result, static_peers, interval, request, response,
                   frame, pc, outcome, delivered>>

\* TrackerCodec::decode(&mut src).
Decode ==
    /\ phase \in {"filled", "encoded"}
    /\ input' = src
    /\ result' = decode(src).res
    /\ src' = decode(src).src
    /\ phase' = "decoded"
    /\ UNCHANGED <<item, static_peers, interval, request, response, frame,
                   pc, outcome, delivered>>

Next ==
    \/ \E b \in RawBuffers : FillBuffer(b)
    \/ \E p \in Packets : Encode(p)
    \/ Decode

Spec == Init /\ [][Next]_vars

-----------------------------------------------------------------------------
(* Properties of the codec, stated on the harness.                         *)

\* The connect magic 0x41727101980 as the eight bytes on the wire.
MagicBytes == <<0, 0, 4, 23, 39, 16, 25, 128>>
HasMagic(buf) == Len(buf) >= 8 /\ SubSeq(buf, 1, 8) = MagicBytes
\* A big-endian u32 at a 0-based offset holding the small number n.
WordIs(buf, off, n) == SubSeq(buf, off + 1, off + 4) = <<0, 0, 0, n>>
Decoded == phase = "decoded"

\* C1: decoding the bytes encode produced for a packet yields that packet.
C1_RoundTrip ==
    (Decoded /\ item # NoPacket) => result = OkSome(item)

\* C2: a 16-byte buffer that starts with the connect magic and carries a
\* valid action code in bytes 8..12 decodes as a ConnectRequest with that
\* action and the transaction id of bytes 12..16, whatever the action is.
C2_MagicPriority ==
    \A n \in 0..2 :
        (Decoded /\ Len(input) = 16 /\ HasMagic(input) /\ WordIs(input, 8, n))
            => /\ result.tag = "OkSome"
               /\ result.val.kind = "ConnectRequest"
               /\ result.val.action =
                    (CASE n = 0 -> "Connect" [] n = 1 -> "Announce"
                       [] n = 2 -> "Scrape")
               /\ WriteU32(result.val.transaction_id) = SubSeq(input, 13, 16)
               /\ WriteU64(result.val.protocol_id) = MagicBytes

\* C2 witness: a 16-byte magic buffer whose bytes 8..12 are the Announce
\* code has been decoded into a packet.
C2_Witness ==
    /\ Decoded /\ Len(input) = 16 /\ HasMagic(input) /\ WordIs(input, 8, 1)
    /\ result.tag = "OkSome"

\* C3: decode of a 32-byte buffer never returns an error.
C3_NoErrorOn32Bytes ==
    (Decoded /\ Len(input) = 32) => result.tag # "Err"

\* C4: an AnnounceRequest without a port encodes to 96 bytes and decodes
\* back with the port absent; one with a port decodes with that port.
\* (Stated for connection ids other than the connect magic.)
C4_OptionalPort ==
    (Decoded /\ item.kind = "AnnounceRequest"
        /\ item.connection_id # CONNECT_MAGIC)
        => /\ item.port = <<>> => Len(input) = 96
           /\ result.tag = "OkSome"
           /\ result.val.kind = "AnnounceRequest"
           /\ result.val.port = item.port

\* C5: when the bytes after the fixed header of an AnnounceResponse, a
\* ScrapeRequest or a ScrapeResponse are not a whole number of records,
\* decode does not return a packet.
C5_NoSilentTruncation ==
    (Decoded /\ result.tag = "OkSome")
        => /\ result.val.kind = "AnnounceResponse" => (Len(input) - 20) % 6 = 0
           /\ result.val.kind = "ScrapeRequest" => (Len(input) - 16) % 20 = 0
           /\ result.val.kind = "ScrapeResponse" => (Len(input) - 8) % 12 = 0

\* C6: a buffer of fewer than 16 bytes decodes to Ok(None) and is left as
\* it was.
C6_IncompleteThreshold ==
    (Decoded /\ Len(input) < 16) => (result = OkNone /\ src = input)

\* C6 witness: a 15-byte buffer that starts with the connect magic has been
\* decoded.
C6_Witness == Decoded /\ Len(input) = 15 /\ HasMagic(input)

\* The shape the two candidate action fields select, request first.
ExpectedShape(buf) ==
    CASE WordIs(buf, 8, 1) -> "AnnounceRequest"
      [] WordIs(buf, 8, 2) -> "ScrapeRequest"
      [] WordIs(buf, 0, 0) -> "ConnectResponse"
      [] WordIs(buf, 0, 1) -> "AnnounceResponse"
      [] WordIs(buf, 0, 2) -> "ScrapeResponse"
      [] OTHER -> "None"

\* C10: for a buffer of at least 16 bytes that does not start with the
\* connect magic, the shape decoded is the one the request action selects,
\* else the one the response action selects, else none (Ok(None)); the
\* whole buffer is consumed.
C10_DispatchOrder ==
    (Decoded /\ Len(input) >= 16 /\ ~HasMagic(input))
        => /\ src = <<>>
           /\ result.tag = "OkNone" <=> ExpectedShape(input) = "None"
           /\ result.tag = "OkSome" => result.val.kind = ExpectedShape(input)

\* C10 witness: a buffer whose request action and response action are both
\* Announce has been decoded into an AnnounceRequest.
C10_Witness ==
    /\ Decoded /\ Len(input) >= 16 /\ ~HasMagic(input)
    /\ WordIs(input, 8, 1) /\ WordIs(input, 0, 1)
    /\ result.tag = "OkSome" /\ result.val.kind = "AnnounceRequest"

-----------------------------------------------------------------------------
(* Tracker: construction and the request handler.                          *)

\* self.static_peers.len() as u32.
LenAsU32(v) == U32((Len(v) \div 65536) % 65536, Len(v) % 65536)

\* Tracker::new: every SocketAddrV4 becomes a Peer, in order; the frame is
\* a fresh UdpFramed.
new(addrs, announce_interval) ==
    [frame |-> FreshFrame,
     static_peers |-> [i \in 1..Len(addrs) |->
                          [ip_address |-> addrs[i].ip, port |-> addrs[i].port]],
     interval |-> announce_interval]

\* Mutant of handle_packet: seeders and leechers are swapped in the
\* AnnounceResponse.
handle_packet_SwappedCounts(packet, random) ==
    IF packet.kind = "AnnounceRequest"
    THEN OkSome([kind |-> "AnnounceResponse",
                 action |-> "Announce",
                 transaction_id |-> packet.transaction_id,
                 interval |-> interval,
                 leechers |-> LenAsU32(static_peers),
                 seeders |-> U32(0, 0),
                 peers |-> static_peers])
    ELSE OkNone

\* Mutant of handle_packet: the ScrapeResponse holds one record for each
\* static peer instead of one for each requested hash.
handle_packet_RecordPerPeer(packet, random) ==
    IF packet.kind = "ScrapeRequest"
    THEN OkSome([kind |-> "ScrapeResponse",
                 action |-> "Scrape",
                 transaction_id |-> packet.transaction_id,
                 data |-> [i \in 1..Len(static_peers) |->
                              [seeders |-> LenAsU32(static_peers),
                               completed |-> LenAsU32(static_peers),
                               leechers |-> U32(0, 0)]]])
    ELSE OkNone

\* Tracker::handle_packet; random is the value rand::random() returns.  The
\* function always returns Ok: Ok(Some(response)) or Ok(None).
handle_packet(packet, random) ==
    CASE packet.kind = "ConnectRequest" ->
            OkSome([kind |-> "ConnectResponse",
                    action |-> "Connect",
                    transaction_id |-> packet.transaction_id,
                    connection_id |-> random])
      [] packet.kind = "AnnounceRequest" ->
            OkSome([kind |-> "AnnounceResponse",
                    action |-> "Announce",
                    transaction_id |-> packet.transaction_id,
                    interval |-> interval,
                    leechers |-> U32(0, 0),
                    seeders |-> LenAsU32(static_peers),
                    peers |-> static_peers])
      [] packet.kind = "ScrapeRequest" ->
            OkSome([kind |-> "ScrapeResponse",
                    action |-> "Scrape",
                    transaction_id |-> packet.transaction_id,
                    data |-> [i \in 1..Len(packet.hashes) |->
                                 [seeders |-> LenAsU32(static_peers),
                                  completed |-> LenAsU32(static_peers),
                                  leechers |-> U32(0, 0)]]])
      [] OTHER -> OkNone

\* The configurations the handler and the loop are run with.
SocketAddrPool ==
    {[ip |-> <<10, 0, 0, 1>>, port |-> 6881],
     [ip |-> <<192, 168, 1, 2>>, port |-> 65535]}
ConfigIntervals == {U32(0, 1), U32(0, 600)}
RandomIds == {U64(0, 0, 0, 42), U64(0, 1, 0, 0)}

Constructed(addrs, i) ==
    /\ static_peers = new(addrs, i).static_peers
    /\ interval = new(addrs, i).interval
    /\ frame = new(addrs, i).frame
    /\ request = NoPacket
    /\ response = NoResult
    /\ pc = "select"
    /\ outcome = "none"
    /\ delivered = <<>>

InitHandler ==
    /\ CodecIdle
    /\ \E addrs \in SeqsUpTo(SocketAddrPool, MaxPeers), i \in ConfigIntervals :
          Constructed(addrs, i)

\* One call of handle_packet(&self, ..) on a constructed tracker; the call
\* takes the tracker by shared reference, so each run makes one call.
HandlePacket(p, random) ==
    /\ request = NoPacket
    /\ request' = p
    /\ response' = handle_packet(p, random)
    /\ UNCHANGED <<src, input, item, result, phase, static_peers, interval,
                   frame, pc, outcome, delivered>>

NextHandler == \E p \in Packets, random \in RandomIds : HandlePacket(p, random)

SpecHandler == InitHandler /\ [][NextHandler]_vars

\* C7: an AnnounceRequest is answered with an AnnounceResponse that echoes
\* the transaction id and carries the configured interval, no leechers,
\* the number of static peers as seeders and the static peers in order.
C7_AnnounceHandling ==
    request.kind = "AnnounceRequest"
        => /\ response.tag = "OkSome"
           /\ response.val.kind = "AnnounceResponse"
           /\ response.val.action = "Announce"
           /\ response.val.transaction_id = request.transaction_id
           /\ response.val.interval = interval
           /\ response.val.leechers = <<0, 0>>
           /\ response.val.seeders = <<0, Len(static_peers)>>
           /\ response.val.peers = static_peers

\* C7 witness: an AnnounceRequest has been handled by a tracker with two
\* static peers.
C7_Witness ==
    /\ request.kind = "AnnounceRequest" /\ Len(static_peers) = 2
    /\ response.tag = "OkSome"

\* C8: a ScrapeRequest with M hashes is answered with a ScrapeResponse that
\* echoes the transaction id and holds M records (K, K, 0), K being the
\* number of static peers.
C8_ScrapeAlignment ==
    request.kind = "ScrapeRequest"
        => /\ response.tag = "OkSome"
           /\ response.val.kind = "ScrapeResponse"
           /\ response.val.transaction_id = request.transaction_id
           /\ Len(response.val.data) = Len(request.hashes)
           /\ \A i \in 1..Len(response.val.data) :
                 response.val.data[i] =
                    [seeders |-> <<0, Len(static_peers)>>,
                     completed |-> <<0, Len(static_peers)>>,
                     leechers |-> <<0, 0>>]

\* C8 witness: a ScrapeRequest with two hashes has been handled by a
\* tracker with one static peer.
C8_Witness ==
    /\ request.kind = "ScrapeRequest" /\ Len(request.hashes) = 2
    /\ Len(static_peers) = 1 /\ response.tag = "OkSome"

-----------------------------------------------------------------------------
(* Tracker::start: the datagram loop over self.frame, a                    *)
(* UdpFramed<TrackerCodec>.  The frame keeps a read buffer rd with the     *)
(* flag is_readable and the sender current_addr, and a write buffer wr     *)
(* with the destination out_addr and the flag flushed.                     *)

\* Decoder::decode_eof, which TrackerCodec does not override: decode's
\* result, except that Ok(None) with bytes left in the buffer is the error
\* "bytes remaining on stream".
decode_eof(buf) ==
    LET d == decode(buf)
    IN  IF d.res.tag = "OkNone" /\ d.src # <<>>
        THEN [res |-> Err, src |-> d.src]
        ELSE d

\* self.frame.send((response, addr)).await: poll_ready flushes a datagram
\* still waiting in wr (not flushed) to its out_addr, and an error there
\* ends the send; start_send encodes the response into wr and sets
\* out_addr; poll_flush hands wr to the socket and, if the socket takes it,
\* clears wr and sets flushed.  An error of the socket returns before wr
\* is cleared.  stale_ok and send_ok say whether the socket accepts the
\* waiting datagram and the new one.
send(f, resp, addr, stale_ok, send_ok) ==
    LET stale == ~f.flushed
        ready == [f EXCEPT !.wr = <<>>, !.flushed = TRUE]
        f1 == IF stale THEN ready ELSE f
        started == [f1 EXCEPT !.wr = f1.wr \o encode(resp),
                              !.out_addr = addr, !.flushed = FALSE]
        flushed == [started EXCEPT !.wr = <<>>, !.flushed = TRUE]
        old == IF stale THEN <<[to |-> f.out_addr, bytes |-> f.wr]>> ELSE <<>>
    IN  IF stale /\ ~stale_ok
        THEN [frame |-> f, ok |-> FALSE, delivered |-> <<>>]
        ELSE IF ~send_ok
        THEN [frame |-> started, ok |-> FALSE, delivered |-> old]
        ELSE [frame |-> flushed, ok |-> TRUE,
              delivered |-> old \o <<[to |-> addr, bytes |-> started.wr]>>]

\* The datagrams and senders the socket delivers.
Addrs == {"198.51.100.7:40000", "203.0.113.9:6881"}
Datagrams ==
    {<<1, 2, 3, 4, 5>>,
     <<>>,
     WriteU64(CONNECT_MAGIC) \o WriteU32(U32(0, 0)) \o WriteU32(U32(0, 123)),
     WriteU64(CONNECT_MAGIC) \o WriteU32(U32(0, 3)) \o WriteU32(U32(0, 123)),
     WriteU32(U32(0, 3)) \o WriteU32(U32(0, 7)) \o WriteU32(U32(0, 3))
        \o WriteU32(U32(0, 123)),
     WriteU32(U32(0, 0)) \o WriteU32(U32(0, 7)) \o WriteU64(U64(0, 0, 0, 42))}
    \cup {encode(p) : p \in {q \in AnnounceRequests :
                                /\ q.connection_id = U64(0, 0, 0, 42)
                                /\ q.transaction_id = U32(0, 123)
                                /\ q.event = "Started"
                                /\ q.info_hash.hash[1] = 0}}
    \cup {encode(p) : p \in {q \in ScrapeRequests :
                                /\ q.connection_id = U64(0, 0, 0, 42)
                                /\ q.transaction_id = U32(0, 123)
                                /\ Len(q.hashes) = 1
                                /\ q.hashes[1].hash[1] = 255}}

InitTracker ==
    /\ CodecIdle
    /\ \E addrs \in SeqsUpTo(SocketAddrPool, 1) : Constructed(addrs, U32(0, 600))

\* signal::ctrl_c() completes: break.
CtrlC ==
    /\ pc = "select"
    /\ pc' = "done"
    /\ outcome' = "shutdown"
    /\ delivered' = <<>>
    /\ UNCHANGED <<src, input, item, result, phase, static_peers, interval,
                   request, response, frame>>

\* self.frame.next() with nothing readable: the socket delivers a datagram
\* into rd, with its sender.
Receive(d, addr) ==
    /\ pc = "select"
    /\ ~frame.is_readable
    /\ frame' = [frame EXCEPT !.rd = d, !.current_addr = addr,
                              !.is_readable = TRUE]
    /\ outcome' = "received"
    /\ delivered' = <<>>
    /\ UNCHANGED <<src, input, item, result, phase, static_peers, interval,
                   request, response, pc>>

\* self.frame.next() with rd readable, and the arm of the match that its
\* result selects.  decode_eof's error is returned as Some(Err(e)) with the
\* frame as decode left it: the loop logs and continues.  Ok(None) clears
\* rd and is_readable and the stream waits for the socket.  A frame is
\* given to handle_packet, and its response, if any, to self.frame.send;
\* a failed send is logged.
Process(random, stale_ok, send_ok) ==
    /\ pc = "select"
    /\ frame.is_readable
    /\ LET d == decode_eof(frame.rd)
           read == [frame EXCEPT !.rd = d.src]
           resp == handle_packet(d.res.val, random)
           sent == send(read, resp.val, frame.current_addr, stale_ok, send_ok)
       IN  CASE d.res.tag = "Err" ->
                  /\ frame' = read
                  /\ outcome' = "parse_error"
                  /\ delivered' = <<>>
                  /\ UNCHANGED <<request, response>>
             [] d.res.tag = "OkNone" ->
                  /\ frame' = [read EXCEPT !.rd = <<>>, !.is_readable = FALSE]
                  /\ outcome' = "dropped"
                  /\ delivered' = <<>>
                  /\ UNCHANGED <<request, response>>
             [] d.res.tag = "OkSome" /\ resp.tag = "OkNone" ->
                  /\ frame' = read
                  /\ outcome' = "no_reply"
                  /\ delivered' = <<>>
                  /\ request' = d.res.val
                  /\ response' = resp
             [] d.res.tag = "OkSome" /\ resp.tag = "OkSome" ->
                  /\ frame' = sent.frame
                  /\ outcome' = IF sent.ok THEN "reply_sent" ELSE "send_failed"
                  /\ delivered' = sent.delivered
                  /\ request' = d.res.val
                  /\ response' = resp
    /\ UNCHANGED <<src, input, item, result, phase, static_peers, interval, pc>>

\* The stream of a UdpFramed never ends (poll_next returns no None), so
\* the arm "None => break" is never taken and has no action.
NextTracker ==
    \/ CtrlC
    \/ \E d \in Datagrams, addr \in Addrs : Receive(d, addr)
    \/ \E random \in RandomIds, stale_ok \in BOOLEAN, send_ok \in BOOLEAN :
          Process(random, stale_ok, send_ok)

SpecTracker == InitTracker /\ [][NextTracker]_vars

\* What a loop iteration can leave in the frame for the next one to find:
\* bytes in rd that the next call of self.frame.next() decodes again, or a
\* datagram in wr that the next send flushes first.
Residue == (frame.is_readable /\ frame.rd # <<>>) \/ ~frame.flushed

\* C9: a failed decode or a failed send does not end the loop and leaves
\* nothing behind that changes how later datagrams are decoded and
\* answered; the loop ends only on the shutdown signal.
C9_LoopResilience ==
    /\ pc = "done" => outcome = "shutdown"
    /\ outcome \in {"parse_error", "send_failed"} => (pc = "select" /\ ~Residue)

=============================================================================
